---- MODULE Spec2Model ----
(***************************************************************************)
(* Model of the computational core of pg-hotspots-cli:                     *)
(*   - utils.get_disk_iops_tp       (tier/availability -> envelope)        *)
(*   - figure_logic.disk_related.disk_usage_pie_overview (snapshot)        *)
(*   - figure_logic.transaction_related.transaction_ops (running average)  *)
(*                                                                         *)
(* Python strings are sequences of one-character strings, so that          *)
(* str.split, str.upper and int() are computed and not assumed.            *)
(* Python's None is the empty tuple <<>>; a present number v is <<v>>.     *)
(***************************************************************************)
EXTENDS Integers, Sequences, FiniteSets, TLC

VARIABLES pc, op, tier_str, availability, cpu_count, bucket, metrics,
          value_bytes, unit, result

vars == <<pc, op, tier_str, availability, cpu_count, bucket, metrics,
          value_bytes, unit, result>>

(***************************************************************************)
(* Bounds of the model.                                                    *)
(***************************************************************************)
MaxCpu == 70

(***************************************************************************)
(* Strings.                                                                *)
(***************************************************************************)
LowerChars == <<"a","b","c","d","e","f","g","h","i","j","k","l","m",
                "n","o","p","q","r","s","t","u","v","w","x","y","z">>

UpperChars == <<"A","B","C","D","E","F","G","H","I","J","K","L","M",
                "N","O","P","Q","R","S","T","U","V","W","X","Y","Z">>

DigitChars == <<"0","1","2","3","4","5","6","7","8","9">>

\* str.upper() on one character
UpperChar(c) ==
    IF \E i \in 1..Len(LowerChars) : LowerChars[i] = c
    THEN UpperChars[CHOOSE i \in 1..Len(LowerChars) : LowerChars[i] = c]
    ELSE c

\* str.upper()
Upper(s) == [i \in 1..Len(s) |-> UpperChar(s[i])]

\* bool(s) of a string: the empty string is the only falsy one
Truthy(s) == Len(s) > 0

\* s.split("-")
RECURSIVE Split(_)
Split(s) ==
    IF \A i \in 1..Len(s) : s[i] # "-"
    THEN <<s>>
    ELSE LET i == CHOOSE j \in 1..Len(s) :
                      s[j] = "-" /\ \A k \in 1..(j-1) : s[k] # "-"
         IN  <<SubSeq(s, 1, i-1)>> \o Split(SubSeq(s, i+1, Len(s)))

IsDigit(c) == \E i \in 1..10 : DigitChars[i] = c

DigitVal(c) == (CHOOSE i \in 1..10 : DigitChars[i] = c) - 1

RECURSIVE DigitsVal(_)
DigitsVal(s) ==
    IF Len(s) = 0 THEN 0
    ELSE 10 * DigitsVal(SubSeq(s, 1, Len(s)-1)) + DigitVal(s[Len(s)])

\* int(s): an optional sign followed by at least one decimal digit;
\* anything else raises ValueError
ParseInt(s) ==
    LET signed == Len(s) > 0 /\ s[1] \in {"+", "-"}
        body   == IF signed THEN SubSeq(s, 2, Len(s)) ELSE s
    IN  IF Len(body) > 0 /\ \A i \in 1..Len(body) : IsDigit(body[i])
        THEN [ok |-> TRUE,
              val |-> IF signed /\ s[1] = "-" THEN 0 - DigitsVal(body)
                      ELSE DigitsVal(body)]
        ELSE [ok |-> FALSE, val |-> 0]

\* str(n) of a natural number (used to build the input tier strings)
RECURSIVE Digits(_)
Digits(n) ==
    IF n < 10 THEN <<DigitChars[n+1]>>
    ELSE Digits(n \div 10) \o <<DigitChars[(n % 10) + 1]>>

(***************************************************************************)
(* utils.get_disk_iops_tp                                                  *)
(***************************************************************************)
None == <<>>

F1Micro == <<"d","b","-","f","1","-","m","i","c","r","o">>

G1Small == <<"d","b","-","g","1","-","s","m","a","l","l">>

REGIONAL == <<"R","E","G","I","O","N","A","L">>

ZONAL == <<"Z","O","N","A","L">>

\* the condition of line 185:  tier_str == "db-f1-micro" or "db-g1-small"
\* (the right operand of `or` is the string literal itself)
MicroTierBranchExact(t) == (t = F1Micro) \/ (t = G1Small)

MicroTierBranch(t) == (t = F1Micro) \/ Truthy(G1Small)

MicroEnvelopeNoRegional(a) ==
    [outcome |-> "return",
     max_iops_rw |-> <<15000, 15000>>,
     max_throughput_rw |-> <<200, 200>>]

\* lines 186-195: the fixed envelope of the micro/small branch
MicroEnvelope(a) ==
    IF a = REGIONAL
    THEN [outcome |-> "return",
          max_iops_rw |-> <<15000, 15000>>,
          max_throughput_rw |-> <<200, 100>>]
    ELSE [outcome |-> "return",
          max_iops_rw |-> <<15000, 15000>>,
          max_throughput_rw |-> <<200, 200>>]

Buckets == {1, 2, 8, 16, 32, 64}

\* lines 208-233
perf_map ==
    [b \in Buckets |->
       CASE b = 1  -> [ZONAL    |-> [iops |-> <<15000, 15000>>, tp |-> <<200, 200>>],
                       REGIONAL |-> [iops |-> <<15000, 15000>>, tp |-> <<200, 100>>]]
         [] b = 2  -> [ZONAL    |-> [iops |-> <<15000, 15000>>, tp |-> <<240, 240>>],
                       REGIONAL |-> [iops |-> <<15000, 15000>>, tp |-> <<240, 120>>]]
         [] b = 8  -> [ZONAL    |-> [iops |-> <<15000, 15000>>, tp |-> <<800, 800>>],
                       REGIONAL |-> [iops |-> <<15000, 15000>>, tp |-> <<800, 400>>]]
         [] b = 16 -> [ZONAL    |-> [iops |-> <<25000, 25000>>, tp |-> <<1200, 1200>>],
                       REGIONAL |-> [iops |-> <<25000, 25000>>, tp |-> <<1200, 600>>]]
         [] b = 32 -> [ZONAL    |-> [iops |-> <<60000, 60000>>, tp |-> <<1200, 1200>>],
                       REGIONAL |-> [iops |-> <<60000, 60000>>, tp |-> <<1200, 600>>]]
         [] b = 64 -> [ZONAL    |-> [iops |-> <<100000, 100000>>, tp |-> <<1200, 1200>>],
                       REGIONAL |-> [iops |-> <<100000, 80000>>, tp |-> <<1200, 1000>>]]]

BucketStrict(c) ==
    IF c > 64 THEN 64
    ELSE IF c > 32 THEN 32
    ELSE IF c > 16 THEN 16
    ELSE IF c > 8 THEN 8
    ELSE IF c > 2 THEN 2
    ELSE 1

\* lines 236-247: the vCPU bucket of a cpu count
Bucket(c) ==
    IF c >= 64 THEN 64
    ELSE IF c >= 32 THEN 32
    ELSE IF c >= 16 THEN 16
    ELSE IF c >= 8 THEN 8
    ELSE IF c >= 2 THEN 2
    ELSE 1

\* line 250: perf_map[bucket].get(availability.upper(), {})
\* the empty dict is the empty record (a function with empty domain)
PerfLookup(b, a) ==
    IF Upper(a) = ZONAL THEN perf_map[b].ZONAL
    ELSE IF Upper(a) = REGIONAL THEN perf_map[b].REGIONAL
    ELSE <<>>

\* dict.get(key) of the row fetched at line 250: None when the key is absent
RowGet(row, key) == IF key \in DOMAIN row THEN row[key] ELSE None

\* lines 197-256: the path below the micro/small branch
GeneralEnvelope(t, a) ==
    LET parts == Split(t)
    IN  IF Len(parts) < 2 THEN [outcome |-> "IndexError"]
        ELSE LET cpu == ParseInt(parts[Len(parts) - 1])
             IN  IF ~cpu.ok THEN [outcome |-> "ValueError"]
                 ELSE LET res == PerfLookup(Bucket(cpu.val), a)
                      IN  [outcome |-> "return",
                           max_iops_rw |-> RowGet(res, "iops"),
                           max_throughput_rw |-> RowGet(res, "throughput")]

\* lines 174-256
GetDiskIopsTp(t, a) ==
    IF MicroTierBranch(t) THEN MicroEnvelope(a) ELSE GeneralEnvelope(t, a)

(***************************************************************************)
(* Floats.  Every float the modelled code produces is an integer scaled by *)
(* a power of two (v / 1024.0**2, v / 1024.0**3), which binary floating    *)
(* point represents exactly; a float is the record [m, e] standing for     *)
(* m * 2^e with m odd (or m = 0, e = 0), so record equality is numeric     *)
(* equality.                                                               *)
(***************************************************************************)
RECURSIVE Dy(_, _)
Dy(m, e) ==
    IF m = 0 THEN [m |-> 0, e |-> 0]
    ELSE IF m % 2 = 0 THEN Dy(m \div 2, e + 1)
    ELSE [m |-> m, e |-> e]

RECURSIVE Pow2(_)
Pow2(k) == IF k = 0 THEN 1 ELSE 2 * Pow2(k - 1)

DyAdd(x, y) ==
    LET e == IF x.e < y.e THEN x.e ELSE y.e
    IN  Dy(x.m * Pow2(x.e - e) + y.m * Pow2(y.e - e), e)

RECURSIVE DySum(_)
DySum(s) == IF Len(s) = 0 THEN Dy(0, 0) ELSE DyAdd(Head(s), DySum(Tail(s)))

(***************************************************************************)
(* utils.bytes_to_unit                                                     *)
(***************************************************************************)
\* str.lower() on one character
LowerChar(c) ==
    IF \E i \in 1..Len(UpperChars) : UpperChars[i] = c
    THEN LowerChars[CHOOSE i \in 1..Len(UpperChars) : UpperChars[i] = c]
    ELSE c

\* str.lower()
Lower(s) == [i \in 1..Len(s) |-> LowerChar(s[i])]

GiB == <<"G","i","B">>

BytesToUnitZeroFallback(v, u) ==
    IF v = None THEN Dy(0, 0)
    ELSE IF Lower(u) \in {<<"b">>, <<"b","y","t","e","s">>} THEN Dy(v[1], 0)
    ELSE IF Lower(u) = <<"m","i","b">> THEN Dy(v[1], -20)
    ELSE IF Lower(u) = <<"g","i","b">> THEN Dy(v[1], -30)
    ELSE Dy(0, 0)

\* lines 14-35; the value is None or <<v>>
BytesToUnit(v, u) ==
    IF v = None THEN Dy(0, 0)
    ELSE IF Lower(u) \in {<<"b">>, <<"b","y","t","e","s">>} THEN Dy(v[1], 0)
    ELSE IF Lower(u) = <<"m","i","b">> THEN Dy(v[1], -20)
    ELSE IF Lower(u) = <<"g","i","b">> THEN Dy(v[1], -30)
    ELSE Dy(v[1], 0)

(***************************************************************************)
(* figure_logic.disk_related.disk_usage_pie_overview                       *)
(* metrics: [disk_quota, disk_bytes_used : series data,                    *)
(*           disk_bytes_used_by_type : the dict as its (k, data) items in  *)
(*           insertion order]                                              *)
(***************************************************************************)
Last(s) == s[Len(s)]

Max(a, b) == IF a >= b THEN a ELSE b

IncludedPositive(e) == Last(e.data) # None /\ Last(e.data)[1] > 0

\* line 317: cur_used_k_bytes is not None and cur_used_k_bytes >= 0
Included(e) == Last(e.data) # None /\ Last(e.data)[1] >= 0

\* one step of the stable sort: x goes behind every element whose value
\* is not larger
RECURSIVE InsertByValue(_, _)
InsertByValue(x, s) ==
    IF Len(s) = 0 THEN <<x>>
    ELSE IF Head(s).v <= x.v THEN <<Head(s)>> \o InsertByValue(x, Tail(s))
    ELSE <<x>> \o s

\* line 323: sorted(by_type_b.items(), key=lambda x: x[1]), a stable sort
RECURSIVE SortedByValue(_)
SortedByValue(s) ==
    IF Len(s) = 0 THEN <<>>
    ELSE InsertByValue(Last(s), SortedByValue(SubSeq(s, 1, Len(s) - 1)))

AvailNoClamp(cur_quota, cur_used) == cur_quota - cur_used

\* line 312: max(cur_quota - cur_used, 0.0)
CurAvailBytes(cur_quota, cur_used) == Max(cur_quota - cur_used, 0)

ScaleByOne(v) == v

\* line 410: v * 0.9 on a byte count that is a multiple of 10.  The double
\* 0.9 is off by a relative 2.5e-17, less than half a unit in the last
\* place, so the rounded product is the integer 9v/10 itself (100 * 0.9 is
\* 90.0, 200 * 0.9 is 180.0).
ScaleNineTenths(v) == (9 * v) \div 10

\* lines 294-471: the labels and values handed to the pie and the 90% quota
\* line, or the exception raised on the way (lines 310-312, 316, 410)
DiskUsagePieOverview(m) ==
    IF Len(m.disk_quota) = 0 \/ Len(m.disk_bytes_used) = 0
    THEN [outcome |-> "IndexError"]
    ELSE IF Last(m.disk_quota) = None \/ Last(m.disk_bytes_used) = None
    THEN [outcome |-> "TypeError"]
    ELSE IF \E i \in 1..Len(m.disk_bytes_used_by_type) :
                Len(m.disk_bytes_used_by_type[i].data) = 0
    THEN [outcome |-> "IndexError"]
    ELSE LET cur_avail_bytes ==
                 CurAvailBytes(Last(m.disk_quota)[1], Last(m.disk_bytes_used)[1])
             kept      == SelectSeq(m.disk_bytes_used_by_type, Included)
             by_type_b == [i \in 1..Len(kept) |->
                              [k |-> kept[i].k, v |-> Last(kept[i].data)[1]]]
             items     == SortedByValue(by_type_b)
             labels    == [i \in 1..Len(items) |-> items[i].k] \o <<"Available">>
             values    == [i \in 1..Len(items) |-> BytesToUnit(<<items[i].v>>, GiB)]
                          \o <<BytesToUnit(<<cur_avail_bytes>>, GiB)>>
         IN  IF \E i \in 1..Len(m.disk_quota) : m.disk_quota[i] = None
             THEN [outcome |-> "TypeError"]
             ELSE [outcome |-> "return", labels |-> labels, values |-> values,
                   warn_y |-> [i \in 1..Len(m.disk_quota) |->
                                 BytesToUnit(<<ScaleNineTenths(m.disk_quota[i][1])>>,
                                             GiB)]]

(***************************************************************************)
(* figure_logic.transaction_related.transaction_ops                        *)
(* metrics: the list psql_transaction_count, each item with its data and   *)
(* its timestamps                                                          *)
(***************************************************************************)
\* line 21: the noise threshold
NoiseThreshold == 5

\* line 75: x_avg[-15]
AnnotationOffset == 15

HasNone(data) == \E i \in 1..Len(data) : data[i] = None

\* sum(data) of a series without None
RECURSIVE SumData(_)
SumData(data) ==
    IF Len(data) = 0 THEN 0 ELSE Head(data)[1] + SumData(Tail(data))

Truncate(a, b) == a \div b

\* round(a / b) for b > 0: nearest integer, ties to the even one
RoundHalfEven(a, b) ==
    LET q == a \div b
        r == a % b
    IN  IF 2 * r < b THEN q
        ELSE IF 2 * r > b THEN q + 1
        ELSE IF q % 2 = 0 THEN q ELSE q + 1

\* lines 20-26: the loop body over items i..Len(items), from the
\* accumulators acc = [x_avg, avg_sum, avg_count, raised]
RECURSIVE TxnLoop(_, _, _)
TxnLoop(items, i, acc) ==
    IF i > Len(items) THEN acc
    ELSE LET item == items[i]
         IN  IF HasNone(item.data) THEN [acc EXCEPT !.raised = "TypeError"]
             ELSE IF SumData(item.data) < NoiseThreshold
             THEN TxnLoop(items, i + 1, acc)
             ELSE TxnLoop(items, i + 1,
                    [x_avg     |-> IF acc.x_avg = <<>> THEN item.timestamps
                                   ELSE acc.x_avg,
                     avg_sum   |-> acc.avg_sum + SumData(item.data),
                     avg_count |-> IF acc.avg_count = 0 THEN Len(item.data)
                                   ELSE acc.avg_count,
                     raised    |-> "none"])

\* lines 12-113: the average overlay series and its axis, or the exception
\* raised on the way (lines 21/25, 57, 75); at line 75 avg_values is built
TransactionOps(items) ==
    LET acc == TxnLoop(items, 1,
                 [x_avg |-> <<>>, avg_sum |-> 0, avg_count |-> 0, raised |-> "none"])
    IN  IF acc.raised # "none" THEN [outcome |-> acc.raised]
        ELSE IF acc.avg_count = 0 THEN [outcome |-> "ZeroDivisionError"]
        ELSE LET avg_values ==
                     [i \in 1..Len(acc.x_avg) |->
                         RoundHalfEven(acc.avg_sum, acc.avg_count)]
             IN  [outcome |-> IF Len(acc.x_avg) < AnnotationOffset
                              THEN "IndexError" ELSE "return",
                  x_avg |-> acc.x_avg,
                  avg_values |-> avg_values]

(***************************************************************************)
(* Inputs of get_disk_iops_tp.                                             *)
(***************************************************************************)
DbCustom == <<"d","b","-","c","u","s","t","o","m">>

\* "db-custom-<c>-<4096*c>", e.g. db-custom-8-32768, db-custom-16-65536
CustomTier(c) == DbCustom \o <<"-">> \o Digits(c) \o <<"-">> \o Digits(4096 * c)

CustomTiers == {CustomTier(c) : c \in 1..MaxCpu}

MalformedTiers ==
    { DbCustom \o <<"-","x","-","1","0","2","4">>,
      <<"d","b","-","p","e","r","f","-","N","-","8">>,
      DbCustom \o <<"-","-","8">>,
      <<"m","i","c","r","o">>,
      <<>> }

Tiers == {F1Micro, G1Small} \cup CustomTiers \cup MalformedTiers

Availabilities ==
    { REGIONAL, ZONAL,
      <<"r","e","g","i","o","n","a","l">>,
      <<"R","e","g","i","o","n","a","l">>,
      <<"z","o","n","a","l">>,
      <<"L","O","C","A","L">>,
      <<>> }

(***************************************************************************)
(* State machine: one call of one operation.                               *)
(***************************************************************************)
NoMetrics == <<>>

Init ==
    /\ pc = "idle"
    /\ op = "none"
    /\ tier_str = <<>>
    /\ availability = <<>>
    /\ cpu_count = 0
    /\ bucket = 0
    /\ metrics = NoMetrics
    /\ value_bytes = None
    /\ unit = <<>>
    /\ result = [outcome |-> "none"]

CallGetDiskIopsTp(t, a) ==
    /\ pc = "idle"
    /\ pc' = "done"
    /\ op' = "get_disk_iops_tp"
    /\ tier_str' = t
    /\ availability' = a
    /\ result' = GetDiskIopsTp(t, a)
    /\ UNCHANGED <<cpu_count, bucket, metrics, value_bytes, unit>>

\* lines 235-247 applied to a cpu count on its own
BucketStep ==
    /\ pc = "idle"
    /\ pc' = "done"
    /\ op' = "bucket"
    /\ bucket' = Bucket(cpu_count)
    /\ UNCHANGED <<tier_str, availability, cpu_count, metrics, value_bytes, unit,
                   result>>

Next ==
    /\ pc = "idle"
    /\ \E t \in Tiers, a \in Availabilities : CallGetDiskIopsTp(t, a)

Spec == Init /\ [][Next]_vars

(***************************************************************************)
(* Inputs of disk_usage_pie_overview and transaction_ops.                  *)
(***************************************************************************)
\* all sequences over S of length 0..n
Seqs(S, n) == UNION {[1..k -> S] : k \in 0..n}

MaxSamples == 2

ByteValues == {-1, 0, 20, 30, 50, 100}

Samples == {None} \cup {<<v>> : v \in ByteValues}

\* the quota and the total used bytes are never negative; every byte count
\* here is a multiple of 10
TotalSamples == {None} \cup {<<v>> : v \in ByteValues \cap Nat}

TypeLabels == {"a", "b"}

\* of disk_bytes_used and of each by-type series only data()[-1] is read,
\* so these series carry at most their latest sample
TypeEntries == [k : TypeLabels, data : Seqs(Samples, 1)]

ByTypeDicts ==
    {d \in Seqs(TypeEntries, Cardinality(TypeLabels)) :
        \A i, j \in 1..Len(d) : i # j => d[i].k # d[j].k}

PieMetrics ==
    [disk_quota : Seqs(TotalSamples \cup {<<200>>}, MaxSamples),
     disk_bytes_used : Seqs(TotalSamples, 1),
     disk_bytes_used_by_type : ByTypeDicts]

MaxSeries == 2

MaxLen == 3

CountValues == {1, 10}

Repeat(v, n) == [i \in 1..n |-> v]

\* short series of every shape; series summing to 4 and to 5, on either side
\* of the threshold of line 21; two series with a missing sample; flat
\* series long enough for line 75
TxnData ==
    Seqs({<<v>> : v \in CountValues}, MaxLen)
    \cup {<<<<2>>, <<2>>>>, <<<<2>>, <<2>>, <<1>>>>}
    \cup {<<None>>, <<<<10>>, None>>}
    \cup {Repeat(<<10>>, AnnotationOffset), Repeat(<<1>>, AnnotationOffset + 1)}

\* timestamps() has one entry per sample
TxnItem(data) == [data |-> data, timestamps |-> [i \in 1..Len(data) |-> i]]

TxnItems == {TxnItem(d) : d \in TxnData}

CallDiskUsagePieOverview(m) ==
    /\ pc = "idle"
    /\ pc' = "done"
    /\ op' = "disk_usage_pie_overview"
    /\ metrics' = m
    /\ result' = DiskUsagePieOverview(m)
    /\ UNCHANGED <<tier_str, availability, cpu_count, bucket, value_bytes, unit>>

CallTransactionOps(m) ==
    /\ pc = "idle"
    /\ pc' = "done"
    /\ op' = "transaction_ops"
    /\ metrics' = m
    /\ result' = TransactionOps(m)
    /\ UNCHANGED <<tier_str, availability, cpu_count, bucket, value_bytes, unit>>

NextPie == pc = "idle" /\ \E m \in PieMetrics : CallDiskUsagePieOverview(m)

SpecPie == Init /\ [][NextPie]_vars

NextTxn ==
    /\ pc = "idle"
    /\ \E n \in 0..MaxSeries : \E m \in [1..n -> TxnItems] : CallTransactionOps(m)

SpecTxn == Init /\ [][NextTxn]_vars

(***************************************************************************)
(* bytes_to_unit on its own: byte counts -1..MaxBytes or None, and unit     *)
(* strings in several casings, known and unknown.                          *)
(***************************************************************************)
MaxBytes == 12

UnitStrings ==
    { GiB, <<"g","i","b">>, <<"G","I","B">>,
      <<"M","i","B">>, <<"m","i","b">>,
      <<"b">>, <<"B">>, <<"b","y","t","e","s">>, <<"B","y","t","e","s">>,
      <<"K","i","B">>, <<"T","B">>, <<"g","b">>, <<>> }

CallBytesToUnit(v, u) ==
    /\ pc = "idle"
    /\ pc' = "done"
    /\ op' = "bytes_to_unit"
    /\ value_bytes' = v
    /\ unit' = u
    /\ result' = [outcome |-> "return", value |-> BytesToUnit(v, u)]
    /\ UNCHANGED <<tier_str, availability, cpu_count, bucket, metrics>>

NextUnit ==
    /\ pc = "idle"
    /\ \E v \in {None} \cup {<<n>> : n \in -1..MaxBytes}, u \in UnitStrings :
           CallBytesToUnit(v, u)

SpecUnit == Init /\ [][NextUnit]_vars

(***************************************************************************)
(* The bucket computation of lines 235-247 over every cpu count int() can  *)
(* hand it, from -1 up to MaxCpuCount.                                     *)
(***************************************************************************)
MaxCpuCount == 130

InitBucket ==
    /\ pc = "idle"
    /\ op = "none"
    /\ tier_str = <<>>
    /\ availability = <<>>
    /\ cpu_count \in -1..MaxCpuCount
    /\ bucket = 0
    /\ metrics = NoMetrics
    /\ value_bytes = None
    /\ unit = <<>>
    /\ result = [outcome |-> "none"]

NextBucket == BucketStep

SpecBucket == InitBucket /\ [][NextBucket]_vars

(***************************************************************************)
(* Claims about get_disk_iops_tp.                                          *)
(***************************************************************************)
EnvelopeDone == pc = "done" /\ op = "get_disk_iops_tp"

\* the entry of the canonical table for a bucket and a recognized mode
CanonicalEntry(b, a) ==
    IF a = ZONAL THEN perf_map[b].ZONAL ELSE perf_map[b].REGIONAL

\* the vCPU field of a db-custom-<vCPU>-<memory> tier string
VcpuOf(t) == ParseInt(Split(t)[Len(Split(t)) - 1]).val

\* C1: for every tier db-custom-<vCPU>-<memory> with a positive vCPU and
\* every availability in {ZONAL, REGIONAL}, the lookup returns exactly the
\* canonical table entry of (bucket(vCPU), availability): its IOPS pair and
\* its throughput pair.
C1_EnvelopeIsCanonical ==
    (EnvelopeDone /\ tier_str \in CustomTiers /\ availability \in {ZONAL, REGIONAL})
    => result = [outcome |-> "return",
                 max_iops_rw |->
                     CanonicalEntry(Bucket(VcpuOf(tier_str)), availability).iops,
                 max_throughput_rw |->
                     CanonicalEntry(Bucket(VcpuOf(tier_str)), availability).tp]

\* C2: for every availability that does not case-insensitively equal ZONAL
\* or REGIONAL, and every tier, the lookup fails with UnsupportedAvailability
\* and returns no envelope.
C2_UnknownAvailabilityRejected ==
    (EnvelopeDone /\ Upper(availability) \notin {ZONAL, REGIONAL})
    => result.outcome = "UnsupportedAvailability"

\* C3: the availability mode is case-insensitive: for every tier and every
\* casing of an availability string the lookup gives what it gives for the
\* uppercase form.
C3_AvailabilityCaseInsensitive ==
    EnvelopeDone => result = GetDiskIopsTp(tier_str, Upper(availability))

\* C5: for every tier that is not a micro/small literal and whose
\* second-to-last hyphen-delimited field does not parse as an integer, the
\* lookup fails with a parse error (int()'s ValueError) and returns no
\* envelope, for each recognized availability mode.
C5_UnparsableVcpuFails ==
    (/\ EnvelopeDone
     /\ tier_str \notin {F1Micro, G1Small}
     /\ Len(Split(tier_str)) >= 2
     /\ ~ParseInt(Split(tier_str)[Len(Split(tier_str)) - 1]).ok
     /\ Upper(availability) \in {ZONAL, REGIONAL})
    => result.outcome = "ValueError"

\* C6: for the literal tiers db-f1-micro and db-g1-small the lookup returns
\* the fixed envelope: IOPS (15000,15000) for both modes, throughput
\* (200,100) for REGIONAL and (200,200) for ZONAL.
C6_MicroSmallFixedEnvelope ==
    (EnvelopeDone /\ tier_str \in {F1Micro, G1Small}
                  /\ availability \in {ZONAL, REGIONAL})
    => /\ result.outcome = "return"
       /\ result.max_iops_rw = <<15000, 15000>>
       /\ result.max_throughput_rw =
              IF availability = REGIONAL THEN <<200, 100>> ELSE <<200, 200>>

C6_Witness ==
    /\ EnvelopeDone
    /\ tier_str = G1Small
    /\ availability = REGIONAL
    /\ result.max_throughput_rw = <<200, 100>>

(***************************************************************************)
(* Claims about the bucket computation.                                    *)
(***************************************************************************)
BucketDone == pc = "done" /\ op = "bucket"

\* C4: for every vCPU count c >= 1, bucket(c) is one of {1,2,8,16,32,64},
\* is the largest bucket value <= c, and is monotonic non-decreasing in c;
\* bucket(1)=1, bucket(7)=2, bucket(8)=8, bucket(15)=8, bucket(16)=16,
\* bucket(100)=64.
C4_BucketIsLargestBelow ==
    (BucketDone /\ cpu_count >= 1)
    => /\ bucket \in Buckets
       /\ bucket <= cpu_count
       /\ \A b \in Buckets : b <= cpu_count => b <= bucket
       /\ \A d \in 1..cpu_count : Bucket(d) <= bucket
       /\ (cpu_count = 1 => bucket = 1)
       /\ (cpu_count = 7 => bucket = 2)
       /\ (cpu_count = 8 => bucket = 8)
       /\ (cpu_count = 15 => bucket = 8)
       /\ (cpu_count = 16 => bucket = 16)
       /\ (cpu_count = 100 => bucket = 64)

C4_Witness == BucketDone /\ cpu_count = 100 /\ bucket = 64

(***************************************************************************)
(* Claims about disk_usage_pie_overview.                                   *)
(***************************************************************************)
PieReturned ==
    pc = "done" /\ op = "disk_usage_pie_overview" /\ result.outcome = "return"

CurQuota == Last(metrics.disk_quota)[1]

CurUsed == Last(metrics.disk_bytes_used)[1]

\* latest value of a by-type entry is non-null and non-negative
NonNullNonNegative(e) == Last(e.data) # None /\ Last(e.data)[1] >= 0

\* sum of the latest values of the by-type entries d[1..n] that qualify
RECURSIVE QualifyingSum(_, _)
QualifyingSum(d, n) ==
    IF n = 0 THEN 0
    ELSE QualifyingSum(d, n - 1)
         + (IF NonNullNonNegative(d[n]) THEN Last(d[n].data)[1] ELSE 0)

NamedSum ==
    QualifyingSum(metrics.disk_bytes_used_by_type,
                  Len(metrics.disk_bytes_used_by_type))

\* x <= y on floats
DyLeq(x, y) ==
    LET e == IF x.e < y.e THEN x.e ELSE y.e
    IN  x.m * Pow2(x.e - e) <= y.m * Pow2(y.e - e)

\* C7 (as stated): "Available" is max(quota - sum of the included named
\* usages, 0), and whenever the included usages sum to at most the quota the
\* output values sum to the quota (values read in the output unit, GiB).
C7_AvailableIsQuotaMinusNamed ==
    PieReturned
    => /\ Last(result.values) = Dy(Max(CurQuota - NamedSum, 0), -30)
       /\ (NamedSum <= CurQuota => DySum(result.values) = Dy(CurQuota, -30))

\* C7 (amended): "Available" is max(quota - latest disk_bytes_used, 0) in
\* GiB; whenever the included usages sum to exactly the latest
\* disk_bytes_used and that is at most the quota, the output values sum to
\* the quota in GiB.
C7_AvailableIsQuotaMinusUsed ==
    PieReturned
    => /\ Last(result.values) = Dy(Max(CurQuota - CurUsed, 0), -30)
       /\ ((NamedSum = CurUsed /\ CurUsed <= CurQuota)
              => DySum(result.values) = Dy(CurQuota, -30))

C7_Witness ==
    /\ PieReturned
    /\ CurQuota = 100
    /\ CurUsed = 50
    /\ NamedSum = 50
    /\ Len(result.labels) = 3
    /\ Last(result.values) = Dy(50, -30)

\* C10: a named usage entry is in the output iff its latest value is
\* non-null and non-negative; the named entries are in ascending order of
\* value, and "Available" comes exactly once, after all of them.
C10_NamedEntriesFilteredAndSorted ==
    PieReturned
    => LET d == metrics.disk_bytes_used_by_type
           n == Len(result.labels)
       IN  /\ n >= 1
           /\ Len(result.values) = n
           /\ result.labels[n] = "Available"
           /\ \A i \in 1..(n-1) : result.labels[i] # "Available"
           /\ \A j \in 1..Len(d) :
                  NonNullNonNegative(d[j])
                  <=> \E i \in 1..(n-1) :
                          /\ result.labels[i] = d[j].k
                          /\ result.values[i] = Dy(Last(d[j].data)[1], -30)
           /\ \A i \in 1..(n-1) : \E j \in 1..Len(d) : result.labels[i] = d[j].k
           /\ \A i, j \in 1..(n-1) : i # j => result.labels[i] # result.labels[j]
           /\ \A i, j \in 1..(n-1) :
                  i < j => DyLeq(result.values[i], result.values[j])

C10_Witness ==
    /\ PieReturned
    /\ Len(metrics.disk_bytes_used_by_type) = 2
    /\ metrics.disk_bytes_used_by_type[1].k = "a"
    /\ Last(metrics.disk_bytes_used_by_type[1].data) = <<30>>
    /\ Last(metrics.disk_bytes_used_by_type[2].data) = <<0>>
    /\ result.labels = <<"b", "a", "Available">>

(***************************************************************************)
(* Claims about transaction_ops.                                           *)
(***************************************************************************)
TxnDone == pc = "done" /\ op = "transaction_ops"

\* line 57 was executed: the overlay series exists
TxnAveraged == TxnDone /\ result.outcome \in {"return", "IndexError"}

NoNoneSamples == \A i \in 1..Len(metrics) : ~HasNone(metrics[i].data)

Qualifies(item) == SumData(item.data) >= 5

Qualifying == SelectSeq(metrics, Qualifies)

RECURSIVE TotalOf(_)
TotalOf(items) ==
    IF Len(items) = 0 THEN 0
    ELSE SumData(Head(items).data) + TotalOf(Tail(items))

C9_NoQualifyingSeriesGivesEmpty ==
    (TxnDone /\ NoNoneSamples /\ Len(Qualifying) = 0)
    => /\ result.outcome = "return"
       /\ result.avg_values = <<>>

\* the retained series do not all share one timestamp grid
Misaligned ==
    \E i, j \in 1..Len(Qualifying) :
        Qualifying[i].timestamps # Qualifying[j].timestamps

\* C11: an aggregation over retained series that are structurally
\* misaligned (different sample counts or timestamp grids) fails instead of
\* producing an average.
C11_MisalignedSeriesRejected ==
    (TxnDone /\ NoNoneSamples /\ Misaligned) => result.outcome # "return"

\* C12: the 90% quota line has the length of the quota series, and each
\* of its values is the quota value at the same position times 0.9, then
\* converted to GiB; [100, 200] gives [90, 180] before the conversion.
C12_WarnLineIsScaledQuota ==
    PieReturned
    => /\ Len(result.warn_y) = Len(metrics.disk_quota)
       /\ \A i \in 1..Len(result.warn_y) :
              Dy(10 * result.warn_y[i].m, result.warn_y[i].e)
                  = Dy(9 * metrics.disk_quota[i][1], -30)
       /\ (metrics.disk_quota = <<<<100>>, <<200>>>>
              => result.warn_y = <<Dy(90, -30), Dy(180, -30)>>)

C12_Witness ==
    /\ PieReturned
    /\ metrics.disk_quota = <<<<100>>, <<200>>>>
    /\ result.warn_y = <<Dy(90, -30), Dy(180, -30)>>

(***************************************************************************)
(* Claims about bytes_to_unit.                                             *)
(***************************************************************************)
UnitDone == pc = "done" /\ op = "bytes_to_unit"

\* the unit is bytes, MiB or GiB in some casing
NamedUnit ==
    Lower(unit) \in {<<"b","y","t","e","s">>, <<"m","i","b">>, <<"g","i","b">>}

\* C13: bytes_to_unit maps None to 0.0 for every unit string, and for every
\* unit string other than bytes/MiB/GiB (in any casing) returns the input
\* value unchanged.
C13_NoneIsZeroUnknownUnitPassesThrough ==
    UnitDone
    => /\ result.outcome = "return"
       /\ (value_bytes = None => result.value = [m |-> 0, e |-> 0])
       /\ ((value_bytes # None /\ ~NamedUnit)
              => result.value = Dy(value_bytes[1], 0))

C13_Witness ==
    /\ UnitDone
    /\ value_bytes = <<12>>
    /\ unit = <<"K","i","B">>
    /\ result.value = Dy(12, 0)

(***************************************************************************)
(* Totality and determinism of get_disk_iops_tp.                           *)
(***************************************************************************)
\* a two-element [read, write] pair, not None
DefinedPair(p) == p # None /\ Len(p) = 2

====
